---- MODULE Spec2Model ----
(***************************************************************************)
(* Model of vc4cl::ObjectTracker (src/src/ObjectTracker.cpp): the          *)
(* process-wide registry of live API objects.                              *)
(*                                                                         *)
(* liveObjects is a std::set<std::unique_ptr<BaseObject>>: it is kept      *)
(* sorted by object address and holds every address at most once.  An      *)
(* iterator of the set denotes a node, i.e. the address stored in it; the  *)
(* past-the-end iterator is End.  Destroying a node destroys its           *)
(* unique_ptr, which deletes the object and so runs the object's           *)
(* destructor; a destructor may call back into removeObject.               *)
(*                                                                         *)
(* Every thread has a call stack of frames; the top frame is the code      *)
(* that is running.  Static destruction (~ObjectTracker) is run by Main.   *)
(***************************************************************************)
EXTENDS Integers, Sequences, FiniteSets, TLC

\* ---- bounds of the model
NumObjects == 3
NumThreads == 2
MaxReleases == 2

Addr == 1..NumObjects
Threads == 1..NumThreads
Main == 1
End == 0
NoThread == 0
TypeNames == {"cl_context", "cl_mem"}

VARIABLES
    liveObjects,      \* ObjectTracker::liveObjects, in iteration (address) order
    trackerMutex,     \* ObjectTracker::trackerMutex: owner and recursion depth
    stack,            \* per thread: the call stack, top frame last
    typeName,         \* BaseObject::typeName of every object
    referenceCount,   \* BaseObject::referenceCount of every object
    deleteCount,      \* per object: how many times it has been deleted
    debugLogEnabled,  \* the value of isDebugLogEnabled()
    debugMode,        \* whether the build defines DEBUG_MODE
    clientReAdds,     \* whether clients hand the same object to addObject again
    phase,            \* "running", "sweep" (inside ~ObjectTracker) or "exited"
    leakReports,      \* what the destructor wrote to the diagnostic sink
    crashed,          \* the process died from reading freed memory
    hist,             \* history: "never" added, "in" the registry, "erased"
    scripted,         \* clients run add-then-remove cycles on identities of their own
    cyc,              \* per thread: the object of its current cycle, or End
    released,         \* how many removeObject calls destructors have made so far
    sweepNested,      \* history: in ~ObjectTracker a destructor called removeObject for
                      \* another object that was tracked when ~ObjectTracker started
    staleRead,        \* history: the registry read a field of an erased object
    atExit,           \* history: liveObjects when ~ObjectTracker started
    rt                \* history, scripted runs: the latest addObject and the state before it

vars == <<liveObjects, trackerMutex, stack, typeName, referenceCount,
          deleteCount, debugLogEnabled, debugMode, clientReAdds, phase,
          leakReports, crashed, hist, scripted, cyc, released, sweepNested, staleRead,
          atExit, rt>>

\* ---- the std::set: a strictly increasing sequence of addresses
Range(s) == {s[i] : i \in 1..Len(s)}

Contains(s, o) == o \in Range(s)

IsSorted(s) == \A i \in 1..Len(s) - 1 : s[i] < s[i + 1]

\* the elements of s that satisfy Keep, in order
RECURSIVE Filter(_, _)
Filter(s, keep) ==
    IF s = <<>> THEN <<>>
    ELSE IF Head(s) \in keep THEN <<Head(s)>> \o Filter(Tail(s), keep)
    ELSE Filter(Tail(s), keep)

\* std::set::emplace: the new key goes to its place in the order; a key that
\* is already there is left alone (the new node is dropped)
Emplace(s, o) ==
    IF Contains(s, o) THEN s
    ELSE Filter(s, {x \in Range(s) : x < o}) \o <<o>> \o Filter(s, {x \in Range(s) : x > o})

\* a comparison that never matches
FindIfNone(s, o) == End

\* std::find_if over [begin, end) with ptr.get() == obj: the first match, or End
RECURSIVE FindIf(_, _)
FindIf(s, o) ==
    IF s = <<>> THEN End
    ELSE IF Head(s) = o THEN Head(s)
    ELSE FindIf(Tail(s), o)

\* erase(begin()) in place of erase(it)
EraseFirst(s, it) == IF s = <<>> THEN s ELSE Tail(s)

\* std::set::erase(iterator): unlinks that node
Erase(s, it) == Filter(s, Range(s) \ {it})

\* the entry at that position in the collection as it was when the sweep began
LastOfSnapshot(s) == atExit[Len(s)]

\* --liveObjects.end(): the last node
Last(s) == s[Len(s)]

\* ---- frames
NoPred == [kind |-> "none", name |-> "", ptr |-> 0]

Frame(op, obj, pc) ==
    [op |-> op, obj |-> obj, pc |-> pc, it |-> End, todo |-> {}, out |-> <<>>, pred |-> NoPred]

Top(t) == stack[t][Len(stack[t])]

HasTop(t, op, pc) == stack[t] # <<>> /\ Top(t).op = op /\ Top(t).pc = pc

Push(t, f) == [stack EXCEPT ![t] = Append(@, f)]

Pop(t) == [stack EXCEPT ![t] = SubSeq(@, 1, Len(@) - 1)]

SetTop(t, f) == [stack EXCEPT ![t] = [@ EXCEPT ![Len(@)] = f]]

\* replace the top frame by f and push g on it
SetTopPush(t, f, g) == [stack EXCEPT ![t] = Append([@ EXCEPT ![Len(@)] = f], g)]

Idle(t) == stack[t] = <<>>

\* ---- reading an object's fields
Freed(o) == deleteCount[o] > 0

Init ==
    /\ liveObjects = <<>>
    /\ trackerMutex = [owner |-> NoThread, count |-> 0]
    /\ stack = [t \in Threads |-> <<>>]
    /\ typeName = [o \in Addr |-> IF o % 2 = 1 THEN "cl_context" ELSE "cl_mem"]
    /\ referenceCount = [o \in Addr |-> o]
    /\ deleteCount = [o \in Addr |-> 0]
    /\ debugLogEnabled \in BOOLEAN
    /\ debugMode \in BOOLEAN
    /\ clientReAdds = FALSE
    /\ phase = "running"
    /\ leakReports = <<>>
    /\ crashed = FALSE
    /\ hist = [o \in Addr |-> "never"]
    /\ scripted = FALSE
    /\ cyc = [t \in Threads |-> End]
    /\ released = 0
    /\ sweepNested = FALSE
    /\ staleRead = FALSE
    /\ atExit = <<>>
    /\ rt = [obj |-> End, before |-> <<>>, st |-> "none", fx |-> FALSE]


\* ---- reading an object through a pointer the registry was given
ReadsStale(reads) == \E o \in reads : hist[o] = "erased"

ReadsFreed(reads) == \E o \in reads : Freed(o)

\* what a read of obj->typeName and obj->referenceCount yields
ReadTypeName(o) == IF Freed(o) THEN "<freed>" ELSE typeName[o]

ReadReferenceCount(o) == IF Freed(o) THEN -1 ELSE referenceCount[o]

\* BaseObject::getBasePointer(): the identity token handed to visitors
HeapBase == 4096

getBasePointer(o) == HeapBase + o

config == <<typeName, referenceCount, debugLogEnabled, debugMode, clientReAdds, scripted>>

\* reading freed memory may kill the process
Crash ==
    /\ crashed' = TRUE
    /\ staleRead' = TRUE
    /\ UNCHANGED <<liveObjects, trackerMutex, stack, config, deleteCount, phase,
                   leakReports, hist, cyc, released, sweepNested, atExit, rt>>

\* ---- std::recursive_mutex
\* a lock that excludes nobody
CanLockAlways(t) == TRUE

\* a mutex that is not recursive
CanLockNotRecursive(t) == trackerMutex.owner = NoThread

CanLock(t) == trackerMutex.owner \in {NoThread, t}

\* a guard that does not take the mutex
LockedNot(t) == [owner |-> NoThread, count |-> 0]

Locked(t) == [owner |-> t, count |-> trackerMutex.count + 1]

Unlocked ==
    IF trackerMutex.count <= 1 THEN [owner |-> NoThread, count |-> 0]
    ELSE [owner |-> trackerMutex.owner, count |-> trackerMutex.count - 1]

\* the first statement after the lock_guard of each operation
Body(op) ==
    CASE op = "add" -> "emplace"
      [] op = "remove" -> "find"
      [] op = "iterate" -> "visit"
      [] op = "find" -> "scan"

\* ---- what iterateObjects and findTrackedObject compute
\* a loop that starts at the second node
IterateOutputSkipFirst(s) ==
    [i \in 1..Len(s) - 1 |->
        <<getBasePointer(s[i + 1]), ReadTypeName(s[i + 1]), ReadReferenceCount(s[i + 1])>>]

\* a loop that visits the first node twice
IterateOutputRepeatFirst(s) ==
    IF s = <<>> THEN <<>>
    ELSE <<<<getBasePointer(s[1]), ReadTypeName(s[1]), ReadReferenceCount(s[1])>>>> \o
         [i \in 1..Len(s) |-> <<getBasePointer(s[i]), ReadTypeName(s[i]), ReadReferenceCount(s[i])>>]

IterateOutput(s) ==
    [i \in 1..Len(s) |-> <<getBasePointer(s[i]), ReadTypeName(s[i]), ReadReferenceCount(s[i])>>]

Predicates ==
    {[kind |-> "type", name |-> n, ptr |-> 0] : n \in TypeNames}
        \cup {[kind |-> "ptr", name |-> "", ptr |-> getBasePointer(1)]}

Matches(p, o) ==
    CASE p.kind = "type" -> ReadTypeName(o) = p.name
      [] p.kind = "ptr" -> getBasePointer(o) = p.ptr
      [] OTHER -> FALSE

\* a scan that returns the first object without asking the predicate
FindFirstUnchecked(s, p) == IF s = <<>> THEN End ELSE Head(s)

\* the first object in iteration order that satisfies the predicate, or End (nullptr)
RECURSIVE FindFirst(_, _)
FindFirst(s, p) ==
    IF s = <<>> THEN End
    ELSE IF Matches(p, Head(s)) THEN Head(s)
    ELSE FindFirst(Tail(s), p)

\* the objects the scan of findTrackedObject evaluates the predicate on
RECURSIVE Scanned(_, _)
Scanned(s, p) ==
    IF s = <<>> THEN {}
    ELSE IF Matches(p, Head(s)) THEN {Head(s)}
    ELSE {Head(s)} \cup Scanned(Tail(s), p)

\* ---- history of the latest add/remove round trip
RtNone == [obj |-> End, before |-> <<>>, st |-> "none", fx |-> FALSE]

\* the collection changed outside the round trip that rt follows
RtMutated(o) ==
    IF rt.st = "removing" THEN [rt EXCEPT !.fx = TRUE]
    ELSE RtNone

\* ---- client calls
\* addObject has been called for o
Handed(o) ==
    \/ hist[o] # "never"
    \/ \E t \in Threads : \E i \in 1..Len(stack[t]) :
          stack[t][i].op = "add" /\ stack[t][i].obj = o

\* A client call is one step with the lock_guard that opens the called function:
\* a thread that waits for the mutex has not touched anything yet, so the call
\* is taken at the moment the mutex is granted.
\* addObject takes an object its caller has just allocated and still owns.
CallAdd(t, o) ==
    /\ ~crashed /\ phase = "running" /\ Idle(t)
    /\ ~Freed(o)
    /\ ~Handed(o) \/ clientReAdds
    /\ scripted => cyc[t] = End
    /\ cyc' = IF scripted THEN [cyc EXCEPT ![t] = o] ELSE cyc
    /\ CanLock(t)
    /\ trackerMutex' = Locked(t)
    /\ stack' = Push(t, Frame("add", o, Body("add")))
    /\ UNCHANGED <<liveObjects, config, deleteCount, phase, leakReports,
                   crashed, hist, released, sweepNested, staleRead, atExit, rt>>

CallRemove(t, o) ==
    /\ ~crashed /\ phase = "running" /\ Idle(t)
    /\ scripted => cyc[t] = o
    /\ cyc' = IF scripted THEN [cyc EXCEPT ![t] = End] ELSE cyc
    /\ CanLock(t)
    /\ trackerMutex' = Locked(t)
    /\ stack' = Push(t, Frame("remove", o, Body("remove")))
    /\ UNCHANGED <<liveObjects, config, deleteCount, phase, leakReports,
                   crashed, hist, released, sweepNested, staleRead, atExit, rt>>

CallIterate(t) ==
    /\ ~crashed /\ phase = "running" /\ Idle(t)
    /\ CanLock(t)
    /\ trackerMutex' = Locked(t)
    /\ stack' = Push(t, Frame("iterate", End, Body("iterate")))
    /\ UNCHANGED <<liveObjects, config, deleteCount, phase, leakReports,
                   crashed, hist, cyc, released, sweepNested, staleRead, atExit, rt>>

CallFind(t, p) ==
    /\ ~crashed /\ phase = "running" /\ Idle(t)
    /\ CanLock(t)
    /\ trackerMutex' = Locked(t)
    /\ stack' = Push(t, [Frame("find", End, Body("find")) EXCEPT !.pred = p])
    /\ UNCHANGED <<liveObjects, config, deleteCount, phase, leakReports,
                   crashed, hist, cyc, released, sweepNested, staleRead, atExit, rt>>

\* ---- std::lock_guard<std::recursive_mutex> guard(trackerMutex) of a call made
\* by a destructor
Acquire(t) ==
    /\ ~crashed /\ stack[t] # <<>> /\ Top(t).pc = "lock"
    /\ CanLock(t)
    /\ trackerMutex' = Locked(t)
    /\ stack' = SetTop(t, [Top(t) EXCEPT !.pc = Body(Top(t).op)])
    /\ UNCHANGED <<liveObjects, config, deleteCount, phase, leakReports, crashed, hist,
                   cyc, released, sweepNested, staleRead, atExit, rt>>

\* the end of the operation: the guard is destroyed and the call returns
Release(t) ==
    /\ ~crashed /\ stack[t] # <<>> /\ Top(t).pc = "unlock"
    /\ trackerMutex' = Unlocked
    /\ stack' = Pop(t)
    /\ rt' = IF Top(t).op = "remove" /\ Len(stack[t]) = 1 /\ rt.st = "removing"
                  /\ rt.obj = Top(t).obj
             THEN [rt EXCEPT !.st = "done"] ELSE rt
    /\ UNCHANGED <<liveObjects, config, deleteCount, phase, leakReports, crashed, hist,
                   cyc, released, sweepNested, staleRead, atExit>>

\* ---- addObject
\* liveObjects.emplace(obj): the node, and the unique_ptr in it, is built first;
\* when the key is already there the node is dropped again, which deletes obj
AddEmplace(t) ==
    /\ ~crashed /\ HasTop(t, "add", "emplace")
    /\ LET o == Top(t).obj
           dup == Contains(liveObjects, o)
       IN  /\ liveObjects' = Emplace(liveObjects, o)
           /\ hist' = IF dup THEN hist ELSE [hist EXCEPT ![o] = "in"]
           /\ rt' = IF dup \/ ~scripted THEN rt
                    ELSE [obj |-> o, before |-> liveObjects, st |-> "added", fx |-> FALSE]
           /\ stack' = IF dup
                       THEN SetTopPush(t, [Top(t) EXCEPT !.pc = "trace"],
                                       Frame("dtor", o, "enter"))
                       ELSE SetTop(t, [Top(t) EXCEPT !.pc = "trace"])
    /\ UNCHANGED <<trackerMutex, config, deleteCount, phase, leakReports, crashed,
                   cyc, released, sweepNested, staleRead, atExit>>

\* #ifdef DEBUG_MODE: LOG(... << obj->typeName ...)
AddTrace(t) ==
    /\ ~crashed /\ HasTop(t, "add", "trace")
    /\ LET reads == IF debugMode THEN {Top(t).obj} ELSE {}
       IN  \E c \in BOOLEAN :
             IF c /\ ReadsFreed(reads) THEN Crash
             ELSE /\ staleRead' = (staleRead \/ ReadsStale(reads))
                  /\ stack' = SetTop(t, [Top(t) EXCEPT !.pc = "unlock"])
                  /\ UNCHANGED <<liveObjects, trackerMutex, config, deleteCount, phase,
                                 leakReports, crashed, hist, cyc, released, sweepNested, atExit, rt>>

\* ---- removeObject
\* the DEBUG_MODE trace, then it = std::find_if(begin, end, ptr.get() == obj)
RemoveFind(t) ==
    /\ ~crashed /\ HasTop(t, "remove", "find")
    /\ LET reads == IF debugMode THEN {Top(t).obj} ELSE {}
       IN  \E c \in BOOLEAN :
             IF c /\ ReadsFreed(reads) THEN Crash
             ELSE /\ staleRead' = (staleRead \/ ReadsStale(reads))
                  /\ stack' = SetTop(t, [Top(t) EXCEPT !.pc = "erase",
                                                       !.it = FindIf(liveObjects, Top(t).obj)])
                  /\ UNCHANGED <<liveObjects, trackerMutex, config, deleteCount, phase,
                                 leakReports, crashed, hist, cyc, released, sweepNested, atExit, rt>>

\* if(it != end) liveObjects.erase(it); else if(isDebugLogEnabled()) LOG(... obj->typeName)
\* erase unlinks the node and destroys its unique_ptr: the object's destructor runs
RemoveErase(t) ==
    /\ ~crashed /\ HasTop(t, "remove", "erase")
    /\ LET it == Top(t).it
           reads == IF it = End /\ debugLogEnabled THEN {Top(t).obj} ELSE {}
       IN  \E c \in BOOLEAN :
             IF c /\ ReadsFreed(reads) THEN Crash
             ELSE /\ staleRead' = (staleRead \/ ReadsStale(reads))
                  /\ crashed' = crashed
                  /\ liveObjects' = IF it # End THEN Erase(liveObjects, it) ELSE liveObjects
                  /\ hist' = IF it # End THEN [hist EXCEPT ![it] = "erased"] ELSE hist
                  /\ stack' = IF it # End
                              THEN SetTopPush(t, [Top(t) EXCEPT !.pc = "unlock"],
                                              Frame("dtor", it, "enter"))
                              ELSE SetTop(t, [Top(t) EXCEPT !.pc = "unlock"])
                  /\ rt' = IF ~scripted THEN rt
                           ELSE IF rt.st = "added" /\ rt.obj = Top(t).obj /\ Len(stack[t]) = 1
                                THEN [rt EXCEPT !.st = "removing",
                                                !.fx = (it # End /\ it # Top(t).obj)]
                           ELSE IF it = End THEN rt
                           ELSE RtMutated(it)
                  /\ UNCHANGED <<trackerMutex, config, deleteCount, phase, leakReports,
                                 cyc, released, sweepNested, atExit>>

\* ---- ~BaseObject and the destructors of the concrete objects
\* what one destructor may release
Releases == SUBSET Addr

\* delete obj: the destructor starts; ds are the objects it will release
DtorEnter(t, ds) ==
    /\ ~crashed /\ HasTop(t, "dtor", "enter")
    /\ released + Cardinality(ds) <= MaxReleases
    /\ released' = released + Cardinality(ds)
    /\ stack' = SetTop(t, [Top(t) EXCEPT !.pc = "run", !.todo = ds])
    /\ UNCHANGED <<liveObjects, trackerMutex, config, deleteCount, phase, leakReports,
                   crashed, hist, cyc, sweepNested, staleRead, atExit, rt>>

\* the destructor releases what the object refers to: removeObject(d)
DtorCall(t, d) ==
    /\ ~crashed /\ HasTop(t, "dtor", "run")
    /\ d \in Top(t).todo
    /\ stack' = SetTopPush(t, [Top(t) EXCEPT !.todo = @ \ {d}], Frame("remove", d, "lock"))
    /\ sweepNested' = (sweepNested \/ (phase = "sweep" /\ d # Top(t).obj /\ Contains(atExit, d)))
    /\ UNCHANGED <<released, liveObjects, trackerMutex, config, deleteCount, phase, leakReports,
                   crashed, hist, cyc, staleRead, atExit, rt>>

\* the destructor hands a new object to the registry: addObject(o)
DtorAdd(t, o) ==
    /\ ~crashed /\ HasTop(t, "dtor", "run")
    /\ released < MaxReleases
    /\ ~Handed(o) /\ ~Freed(o)
    /\ released' = released + 1
    /\ stack' = Push(t, Frame("add", o, "lock"))
    /\ UNCHANGED <<liveObjects, trackerMutex, config, deleteCount, phase, leakReports,
                   crashed, hist, cyc, sweepNested, staleRead, atExit, rt>>

\* the destructor returns and the storage is freed
DtorEnd(t) ==
    /\ ~crashed /\ HasTop(t, "dtor", "run")
    /\ Top(t).todo = {}
    /\ deleteCount' = [deleteCount EXCEPT ![Top(t).obj] = @ + 1]
    /\ stack' = Pop(t)
    /\ UNCHANGED <<liveObjects, trackerMutex, config, phase, leakReports, crashed, hist,
                   cyc, released, sweepNested, staleRead, atExit, rt>>

\* ---- iterateObjects: func(userData, obj->getBasePointer(), obj->typeName, obj->referenceCount)
IterateVisit(t) ==
    /\ ~crashed /\ HasTop(t, "iterate", "visit")
    /\ LET reads == Range(liveObjects)
       IN  \E c \in BOOLEAN :
             IF c /\ ReadsFreed(reads) THEN Crash
             ELSE /\ staleRead' = (staleRead \/ ReadsStale(reads))
                  /\ stack' = SetTop(t, [Top(t) EXCEPT !.pc = "unlock",
                                                       !.out = IterateOutput(liveObjects)])
                  /\ UNCHANGED <<liveObjects, trackerMutex, config, deleteCount, phase,
                                 leakReports, crashed, hist, cyc, released, sweepNested, atExit, rt>>

\* ---- findTrackedObject: the first obj with predicate(*obj), or nullptr
FindScan(t) ==
    /\ ~crashed /\ HasTop(t, "find", "scan")
    /\ LET reads == Scanned(liveObjects, Top(t).pred)
       IN  \E c \in BOOLEAN :
             IF c /\ ReadsFreed(reads) THEN Crash
             ELSE /\ staleRead' = (staleRead \/ ReadsStale(reads))
                  /\ stack' = SetTop(t, [Top(t) EXCEPT !.pc = "unlock",
                                                       !.it = FindFirst(liveObjects, Top(t).pred)])
                  /\ UNCHANGED <<liveObjects, trackerMutex, config, deleteCount, phase,
                                 leakReports, crashed, hist, cyc, released, sweepNested, atExit, rt>>

\* ---- ~ObjectTracker, run by static destruction at the end of the program
SweepStart ==
    /\ ~crashed /\ phase = "running"
    /\ \A t \in Threads : Idle(t)
    /\ phase' = "sweep"
    /\ atExit' = liveObjects
    /\ stack' = Push(Main, Frame("sweep", End, "report"))
    /\ UNCHANGED <<liveObjects, trackerMutex, config, deleteCount, leakReports, crashed,
                   hist, cyc, released, sweepNested, staleRead, rt>>

\* the leak report without its condition on the debug log
ReportsLeaksAlways == liveObjects # <<>>

\* if(isDebugLogEnabled() && !liveObjects.empty())
ReportsLeaks == debugLogEnabled /\ liveObjects # <<>>

\* a report that skips the first object
LeakReportSkipFirst(s) ==
    [i \in 1..Len(s) - 1 |-> [obj |-> s[i + 1], refs |-> referenceCount[s[i + 1]],
                              type |-> typeName[s[i + 1]]]]

\* for(const auto& obj : liveObjects) LOG(... obj->referenceCount ... obj->typeName ...)
LeakReport(s) ==
    [i \in 1..Len(s) |-> [obj |-> s[i], refs |-> ReadReferenceCount(s[i]),
                          type |-> ReadTypeName(s[i])]]

SweepReport ==
    /\ ~crashed /\ HasTop(Main, "sweep", "report")
    /\ LET on == ReportsLeaks
           reads == IF on THEN Range(liveObjects) ELSE {}
       IN  \E c \in BOOLEAN :
             IF c /\ ReadsFreed(reads) THEN Crash
             ELSE /\ staleRead' = (staleRead \/ ReadsStale(reads))
                  /\ leakReports' = IF on THEN LeakReport(liveObjects) ELSE leakReports
                  /\ stack' = SetTop(Main, [Top(Main) EXCEPT !.pc = "loop"])
                  /\ UNCHANGED <<liveObjects, trackerMutex, config, deleteCount, phase,
                                 crashed, hist, cyc, released, sweepNested, atExit, rt>>

\* while(!liveObjects.empty()) liveObjects.erase(--liveObjects.end());
SweepErase ==
    /\ ~crashed /\ HasTop(Main, "sweep", "loop")
    /\ liveObjects # <<>>
    /\ LET it == Last(liveObjects)
       IN  /\ liveObjects' = Erase(liveObjects, it)
           /\ hist' = [hist EXCEPT ![it] = "erased"]
           /\ stack' = Push(Main, Frame("dtor", it, "enter"))
           /\ rt' = IF scripted THEN RtMutated(it) ELSE rt
    /\ UNCHANGED <<trackerMutex, config, deleteCount, phase, leakReports, crashed,
                   cyc, released, sweepNested, staleRead, atExit>>

SweepEnd ==
    /\ ~crashed /\ HasTop(Main, "sweep", "loop")
    /\ liveObjects = <<>>
    /\ stack' = Pop(Main)
    /\ phase' = "exited"
    /\ UNCHANGED <<liveObjects, trackerMutex, config, deleteCount, leakReports, crashed,
                   hist, cyc, released, sweepNested, staleRead, atExit, rt>>

Next ==
    \/ \E t \in Threads, o \in Addr : CallAdd(t, o)
    \/ \E t \in Threads, o \in Addr : CallRemove(t, o)
    \/ \E t \in Threads : CallIterate(t)
    \/ \E t \in Threads, p \in Predicates : CallFind(t, p)
    \/ \E t \in Threads : Acquire(t)
    \/ \E t \in Threads : Release(t)
    \/ \E t \in Threads : AddEmplace(t)
    \/ \E t \in Threads : AddTrace(t)
    \/ \E t \in Threads : RemoveFind(t)
    \/ \E t \in Threads : RemoveErase(t)
    \/ \E t \in Threads, ds \in Releases : DtorEnter(t, ds)
    \/ \E t \in Threads, d \in Addr : DtorCall(t, d)
    \/ \E t \in Threads : DtorEnd(t)
    \/ \E t \in Threads : IterateVisit(t)
    \/ \E t \in Threads : FindScan(t)
    \/ SweepStart
    \/ SweepReport
    \/ SweepErase
    \/ SweepEnd

Spec == Init /\ [][Next]_vars

\* ---- scripted clients: every thread runs add-then-remove cycles, each on an
\* identity nobody has used before
InitCycles ==
    /\ liveObjects = <<>>
    /\ trackerMutex = [owner |-> NoThread, count |-> 0]
    /\ stack = [t \in Threads |-> <<>>]
    /\ typeName = [o \in Addr |-> IF o % 2 = 1 THEN "cl_context" ELSE "cl_mem"]
    /\ referenceCount = [o \in Addr |-> o]
    /\ deleteCount = [o \in Addr |-> 0]
    /\ debugLogEnabled \in BOOLEAN
    /\ debugMode \in BOOLEAN
    /\ clientReAdds = FALSE
    /\ phase = "running"
    /\ leakReports = <<>>
    /\ crashed = FALSE
    /\ hist = [o \in Addr |-> "never"]
    /\ scripted = TRUE
    /\ cyc = [t \in Threads |-> End]
    /\ released = 0
    /\ sweepNested = FALSE
    /\ staleRead = FALSE
    /\ atExit = <<>>
    /\ rt = RtNone

NextCycles ==
    \/ \E t \in Threads, o \in Addr : CallAdd(t, o)
    \/ \E t \in Threads, o \in Addr : CallRemove(t, o)
    \/ \E t \in Threads : Acquire(t)
    \/ \E t \in Threads : Release(t)
    \/ \E t \in Threads : AddEmplace(t)
    \/ \E t \in Threads : AddTrace(t)
    \/ \E t \in Threads : RemoveFind(t)
    \/ \E t \in Threads : RemoveErase(t)
    \/ \E t \in Threads, ds \in Releases : DtorEnter(t, ds)
    \/ \E t \in Threads, d \in Addr : DtorCall(t, d)
    \/ \E t \in Threads : DtorEnd(t)

SpecCycles == InitCycles /\ [][NextCycles]_vars

\* ---- destructors that call back into addObject as well as removeObject
\* what thread t can do next
Step(t) ==
    \/ Acquire(t) \/ Release(t)
    \/ AddEmplace(t) \/ AddTrace(t)
    \/ RemoveFind(t) \/ RemoveErase(t)
    \/ \E ds \in Releases : DtorEnter(t, ds)
    \/ \E d \in Addr : DtorCall(t, d)
    \/ \E o \in Addr : DtorAdd(t, o)
    \/ DtorEnd(t)
    \/ t = Main /\ (SweepReport \/ SweepErase \/ SweepEnd)

NextReentrant ==
    \/ \E t \in Threads, o \in Addr : CallAdd(t, o)
    \/ \E t \in Threads, o \in Addr : CallRemove(t, o)
    \/ \E t \in Threads : Acquire(t)
    \/ \E t \in Threads : Release(t)
    \/ \E t \in Threads : AddEmplace(t)
    \/ \E t \in Threads : AddTrace(t)
    \/ \E t \in Threads : RemoveFind(t)
    \/ \E t \in Threads : RemoveErase(t)
    \/ \E t \in Threads, ds \in Releases : DtorEnter(t, ds)
    \/ \E t \in Threads, d \in Addr : DtorCall(t, d)
    \/ \E t \in Threads, o \in Addr : DtorAdd(t, o)
    \/ \E t \in Threads : DtorEnd(t)
    \/ SweepStart
    \/ SweepReport
    \/ SweepErase
    \/ SweepEnd

SpecReentrant == Init /\ [][NextReentrant]_vars

\* ---- clients that may hand an object to addObject a second time
InitReAdd ==
    /\ liveObjects = <<>>
    /\ trackerMutex = [owner |-> NoThread, count |-> 0]
    /\ stack = [t \in Threads |-> <<>>]
    /\ typeName = [o \in Addr |-> IF o % 2 = 1 THEN "cl_context" ELSE "cl_mem"]
    /\ referenceCount = [o \in Addr |-> o]
    /\ deleteCount = [o \in Addr |-> 0]
    /\ debugLogEnabled \in BOOLEAN
    /\ debugMode \in BOOLEAN
    /\ clientReAdds = TRUE
    /\ phase = "running"
    /\ leakReports = <<>>
    /\ crashed = FALSE
    /\ hist = [o \in Addr |-> "never"]
    /\ scripted = FALSE
    /\ cyc = [t \in Threads |-> End]
    /\ released = 0
    /\ sweepNested = FALSE
    /\ staleRead = FALSE
    /\ atExit = <<>>
    /\ rt = RtNone

SpecReAdd == InitReAdd /\ [][Next]_vars

\* ------------------------------------------------------------------------
\* Properties
\* ------------------------------------------------------------------------
AllIdle == \A t \in Threads : Idle(t)

TypeOK ==
    /\ IsSorted(liveObjects)
    /\ Range(liveObjects) \subseteq Addr

C2_TrackedIffAddedNotErased ==
    \A o \in Addr :
        Cardinality({i \in 1..Len(liveObjects) : liveObjects[i] = o})
            = IF hist[o] = "in" THEN 1 ELSE 0

C2_Witness ==
    /\ \E o \in Addr : hist[o] = "in" /\ Contains(liveObjects, o)
    /\ \E o \in Addr : hist[o] = "erased" /\ ~Contains(liveObjects, o)
    /\ \E o \in Addr : hist[o] = "never"
    /\ phase = "running"

\* C3: once an object has been removed from the registry no registry operation
\* reads a field of it; a removeObject for an identity that is no longer
\* tracked does not dereference the object.
C3_NoReadAfterRemoval == ~staleRead

\* the program points that read or change liveObjects
AccessPcs == {"emplace", "find", "erase", "visit", "scan", "report", "loop"}

Accessing(t) == stack[t] # <<>> /\ Top(t).pc \in AccessPcs

\* C4: every read and every change of liveObjects, those of ~ObjectTracker
\* included, is made by the thread that holds trackerMutex, and no two threads
\* are at such a point at the same time.
C4_AccessUnderLock ==
    /\ \A t \in Threads : Accessing(t) => trackerMutex.owner = t /\ trackerMutex.count > 0
    /\ \A t, u \in Threads : Accessing(t) /\ Accessing(u) => t = u

\* a removeObject that is looking for, or has not found, an identity that is not tracked
RemovingUntracked(t) ==
    /\ stack[t] # <<>> /\ Top(t).op = "remove"
    /\ ~Contains(liveObjects, Top(t).obj)
    /\ \/ Top(t).pc = "find"
       \/ Top(t).pc = "erase" /\ Top(t).it = End

\* C5: a removeObject for an identity that is not tracked leaves liveObjects as it
\* was and completes normally: none of its steps changes the collection or ends
\* the process.
C5_RemoveUntrackedIsNoOp ==
    [][\A t \in Threads :
          RemovingUntracked(t) /\ (stack'[t] # stack[t] \/ crashed')
              => liveObjects' = liveObjects /\ ~crashed']_vars


\* ---- the shutdown scenario of three objects A, B, C: all three tracked when
\* ~ObjectTracker starts, and the destructor of one of them calls removeObject
\* for another of them
ReentrantShutdown == Len(atExit) = 3 /\ sweepNested

\* ~ObjectTracker is past its leak report
PastReport ==
    \/ phase = "exited"
    \/ phase = "sweep" /\ stack[Main][1].pc = "loop"

\* C6: in the reentrant shutdown scenario ~ObjectTracker destroys each of A, B
\* and C exactly once, whatever their addresses (and so whichever entry the
\* sweep takes at each step): the sweep is not cut short by the process dying,
\* none of the three is deleted twice, and when the sweep has returned each has
\* been deleted.
C6_ReentrantSweepDestroysOnce ==
    ReentrantShutdown =>
        /\ ~crashed
        /\ \A o \in Range(atExit) : deleteCount[o] <= 1
        /\ phase = "exited" => \A o \in Range(atExit) : deleteCount[o] = 1

\* the objects named in the leak reports
Reported == {leakReports[i].obj : i \in 1..Len(leakReports)}

\* C7, as claimed: in the reentrant shutdown scenario ~ObjectTracker emits no
\* leak report for any of A, B and C.
C7_NoLeakReportInScenario == ReentrantShutdown => leakReports = <<>>

\* C7, amended: in the reentrant shutdown scenario ~ObjectTracker reports each
\* of A, B and C as leaked, once, when the debug log is enabled, and reports
\* nothing when it is disabled.
C7_LeakReportIffDebugLog ==
    ReentrantShutdown =>
        IF debugLogEnabled
        THEN /\ Len(leakReports) = 3
             /\ Reported = Range(atExit)
        ELSE leakReports = <<>>

C7_Witness ==
    /\ ReentrantShutdown
    /\ debugLogEnabled
    /\ Len(leakReports) = 3
    /\ phase = "exited"

\* what the sink is to receive for the objects s: one report per object with
\* that object's reference count and type name
ExpectedReports(s) ==
    [i \in 1..Len(s) |-> [obj |-> s[i], refs |-> referenceCount[s[i]], type |-> typeName[s[i]]]]

CyclesDone == AllIdle /\ \A t \in Threads : cyc[t] = End

\* C9: threads that each run add-then-remove cycles on identities nobody else
\* uses: no identity is ever deleted twice, occurs twice in the collection or
\* is lost from it, and whenever all threads have finished their cycles the
\* collection is empty and every identity used has been deleted exactly once.
C9_CyclesLeaveEmpty ==
    /\ \A o \in Addr : deleteCount[o] <= 1
    /\ IsSorted(liveObjects)
    /\ \A o \in Addr : hist[o] = "in" => Contains(liveObjects, o)
    /\ CyclesDone =>
          /\ liveObjects = <<>>
          /\ \A o \in Addr : deleteCount[o] = IF hist[o] = "never" THEN 0 ELSE 1

C9_Witness ==
    /\ CyclesDone
    /\ \A o \in Addr : deleteCount[o] = 1

\* what a client can observe through iterateObjects and findTrackedObject
Observe(s) ==
    [iter |-> IterateOutput(s), find |-> [p \in Predicates |-> FindFirst(s, p)]]

\* C10, as claimed: addObject(O) followed by removeObject(O) leaves a state that
\* iterate and find cannot tell from the state before addObject(O).
C10_RoundTrip == rt.st = "done" => Observe(liveObjects) = Observe(rt.before)

\* C10, amended: addObject(O) followed by removeObject(O), with no other call
\* changing the collection in between, leaves a state that iterate and find
\* cannot tell from the state before addObject(O), provided that destroying O
\* does not remove another tracked object (through O's destructor).
C10_RoundTripWithoutSideEffects ==
    rt.st = "done" /\ ~rt.fx => Observe(liveObjects) = Observe(rt.before)

C10_Witness ==
    /\ rt.st = "done"
    /\ ~rt.fx
    /\ rt.before # <<>>
    /\ deleteCount[rt.obj] = 1

\* ---- iterateObjects and findTrackedObject
\* the triple the visitor is to get for object o
Stored(o) == <<getBasePointer(o), typeName[o], referenceCount[o]>>

\* how often x occurs in the sequence s
Count(s, x) == Cardinality({i \in 1..Len(s) : s[i] = x})

\* iterateObjects has made its pass and not yet returned
IterateDone(t) == HasTop(t, "iterate", "unlock")

\* C11: when iterateObjects has made its pass the visitor has been called once
\* per tracked object with that object's identity, type name and reference
\* count, and for nothing else: the reported triples are, as a multiset, the
\* triples of the stored objects.
C11_IterateVisitsEachOnce ==
    \A t \in Threads :
        IterateDone(t) =>
            /\ Len(Top(t).out) = Len(liveObjects)
            /\ \A o \in Addr :
                  Count(Top(t).out, Stored(o)) = IF Contains(liveObjects, o) THEN 1 ELSE 0

\* a pass over two tracked objects after a third one was removed
C11_Witness ==
    \E t \in Threads :
        /\ IterateDone(t)
        /\ Len(Top(t).out) = 2
        /\ \E o \in Addr : hist[o] = "erased"

\* C12: objects are handed to addObject with pairwise distinct identities, in
\* any interleaving with removes: one pass of iterateObjects never reports the
\* same identity twice.
C12_IterateReportsNoIdentityTwice ==
    \A t \in Threads :
        IterateDone(t) =>
            \A i, j \in 1..Len(Top(t).out) :
                i # j => Top(t).out[i][1] # Top(t).out[j][1]

\* a pass over several objects after some add and remove calls
C12_Witness ==
    \E t \in Threads :
        /\ IterateDone(t)
        /\ Len(Top(t).out) >= 2
        /\ \A o \in Addr : hist[o] # "never"

\* the predicate p is true of object o
Satisfies(p, o) ==
    \/ p.kind = "type" /\ typeName[o] = p.name
    \/ p.kind = "ptr" /\ getBasePointer(o) = p.ptr

\* findTrackedObject has made its scan and not yet returned
FindDone(t) == HasTop(t, "find", "unlock")

\* C13: findTrackedObject returns the first tracked object, in iteration
\* (address) order, of which the predicate is true, and nullptr when the
\* predicate is true of no tracked object or nothing is tracked; what it
\* returns is always tracked.
C13_FindReturnsFirstMatch ==
    \A t \in Threads :
        FindDone(t) =>
            LET r == Top(t).it
                M == {o \in Range(liveObjects) : Satisfies(Top(t).pred, o)}
            IN  IF M = {} THEN r = End
                ELSE r \in M /\ \A o \in M : r <= o

\* a scan that passed over a tracked object before it found its match
C13_Witness ==
    \E t \in Threads :
        /\ FindDone(t)
        /\ Top(t).it # End
        /\ Top(t).it # liveObjects[1]

\* ---- the sweep of ~ObjectTracker
\* C14: the sweep of ~ObjectTracker terminates with an empty collection: as
\* long as it has not returned it can take a further step (it is never stuck
\* half way, whatever the destructors remove), and when it has returned
\* liveObjects is empty.
C14_SweepTerminates ==
    /\ phase = "sweep" => ENABLED Next
    /\ phase = "exited" => liveObjects = <<>>

\* ~ObjectTracker takes an entry: it is at its loop and starts a destructor
SweepTakes ==
    /\ HasTop(Main, "sweep", "loop")
    /\ Len(stack'[Main]) = Len(stack[Main]) + 1

\* C15: whenever the sweep takes an entry to destroy, that entry is in the
\* collection as it stands at that step: no earlier destructor has removed it,
\* it has not been deleted, and the step takes it out of the collection.
C15_SweepTakesCurrentEntry ==
    [][SweepTakes =>
          LET it == stack'[Main][Len(stack'[Main])].obj
          IN  /\ Contains(liveObjects, it)
              /\ hist[it] = "in"
              /\ ~Freed(it)
              /\ ~Contains(liveObjects', it)]_vars

\* the sweep has taken an entry after a destructor it ran had removed an entry
\* at a lower address
C15_Witness ==
    /\ phase = "sweep"
    /\ Len(stack[Main]) = 2
    /\ stack[Main][2].op = "dtor" /\ stack[Main][2].pc = "enter"
    /\ \E o \in Range(atExit) : o < stack[Main][2].obj /\ deleteCount[o] = 1

\* ---- reentrance
\* the activations of thread t that hold a lock_guard
Guards(t) ==
    {i \in 1..Len(stack[t]) :
        stack[t][i].op \in {"add", "remove", "iterate", "find"} /\ stack[t][i].pc # "lock"}

\* a call made by a destructor that a call of the same thread, or the sweep, runs
Nested(t) == stack[t] # <<>> /\ Len(stack[t]) > 1 /\ Top(t).op \in {"add", "remove"}

\* C16: calls of addObject and removeObject made by a destructor on the thread
\* that runs it never deadlock: the nested call is never kept waiting for
\* trackerMutex, a thread inside a call can always take its next step (up to
\* the return of the outermost call) unless the process has died, the mutex is
\* held as many times as its owner has lock_guards alive, and a thread that
\* has returned from its outermost call does not hold the mutex.
C16_ReentranceDoesNotDeadlock ==
    /\ \A t \in Threads : Nested(t) /\ Top(t).pc = "lock" => CanLock(t)
    /\ \A t \in Threads : ~Idle(t) /\ ~crashed => ENABLED Step(t)
    /\ \A t \in Threads :
          Cardinality(Guards(t)) = IF trackerMutex.owner = t THEN trackerMutex.count ELSE 0
    /\ \A t \in Threads : Idle(t) => trackerMutex.owner # t

\* an addObject made by a destructor that a removeObject of the same thread
\* runs has taken the mutex a second time and inserted its object
C16_Witness ==
    \E t \in Threads :
        /\ Nested(t) /\ Top(t).op = "add" /\ Top(t).pc = "unlock"
        /\ stack[t][1].op = "remove"
        /\ trackerMutex = [owner |-> t, count |-> 2]
        /\ Contains(liveObjects, Top(t).obj)

\* ---- visibility
\* the identities one pass of iterateObjects reported
ReportedIds(t) == {Top(t).out[i][1] : i \in 1..Len(Top(t).out)}

\* C17: a pass of iterateObjects that runs while other threads call addObject
\* and removeObject reports the collection of one point in the order of the
\* operations: exactly the identities whose addObject has inserted them and
\* that no erase has taken out, each with all its data, while no operation of
\* another thread is half way.
C17_IterateSeesOnePointInTime ==
    \A t \in Threads :
        IterateDone(t) =>
            /\ ReportedIds(t) = {getBasePointer(o) : o \in {x \in Addr : hist[x] = "in"}}
            /\ \A i \in 1..Len(Top(t).out) : \E o \in Addr : Top(t).out[i] = Stored(o)
            /\ \A u \in Threads \ {t} : Idle(u)

\* a pass between the removeObject of one object and the addObject of another
C17_Witness ==
    \E t \in Threads :
        /\ IterateDone(t)
        /\ Len(Top(t).out) = 1
        /\ \E o \in Addr : hist[o] = "erased" /\ deleteCount[o] = 1
        /\ \E o \in Addr : hist[o] = "never"

\* ---- addObject for an identity that is already tracked
\* C18: addObject for an identity that is already tracked leaves exactly one
\* entry for it and does not destroy the tracked object: an object that is in
\* the collection is there once and has not been deleted.
C18_ReAddKeepsTrackedObject ==
    \A o \in Addr :
        Contains(liveObjects, o) => Count(liveObjects, o) = 1 /\ deleteCount[o] = 0

\* ---- frame conditions
\* thread t is executing a statement of addObject or removeObject itself (not of
\* a destructor that the call runs)
InAddOrRemove(t) == stack[t] # <<>> /\ Top(t).op \in {"add", "remove"}

\* C19: addObject(O) and removeObject(O) change the membership of O only: while
\* a thread executes the call itself, every other identity stays tracked if it
\* was tracked and untracked if it was not; other identities change only
\* through calls that the destructor of O makes.
C19_AddRemoveFrame ==
    [][\A t \in Threads :
          InAddOrRemove(t) =>
              \A o \in Addr \ {Top(t).obj} :
                  Contains(liveObjects', o) <=> Contains(liveObjects, o)]_vars

\* removeObject(O) has erased and destroyed O, the destructor of O called
\* nothing, and other objects are still tracked
C19_Witness ==
    \E t \in Threads :
        /\ HasTop(t, "remove", "unlock")
        /\ Top(t).it = Top(t).obj
        /\ deleteCount[Top(t).obj] = 1
        /\ released = 0
        /\ Len(liveObjects) = 2

\* thread t is inside iterateObjects or findTrackedObject
Reading(t) == stack[t] # <<>> /\ Top(t).op \in {"iterate", "find"}

\* C20: iterateObjects and findTrackedObject are read-only: from the call to
\* the return of either, with visitors and predicates that do not call the
\* registry, liveObjects stays as it is and no object is deleted.
C20_IterateFindReadOnly ==
    [][\A t \in Threads :
          Reading(t) => liveObjects' = liveObjects /\ deleteCount' = deleteCount]_vars

\* findTrackedObject has found an object among three tracked ones
C20_Witness ==
    \E t \in Threads :
        /\ FindDone(t)
        /\ Top(t).it # End
        /\ Len(liveObjects) = 3
        /\ \A o \in Addr : deleteCount[o] = 0

====
